---- MODULE Spec2Model ----
(***************************************************************************)
(* Payroll punch-time analysis (kanishkalmdmax/payroll).                   *)
(*                                                                         *)
(* Two service variants live in the repository:                            *)
(*   "api"    src/payroll_api/services/payroll_service.py  (analyze)       *)
(*   "legacy" src/services/payroll_service.py              (analyze_payroll)*)
(*                                                                         *)
(* Time is counted in whole hours since Monday 2025-01-06 00:00, so that   *)
(* day 0 is a Monday, DateOf(t) = t \div 24 and WeekOf(d) = d \div 7.      *)
(* A timestamp cell of the dataset is a number of hours, NaT (an empty     *)
(* cell) or BadCell (a string pandas cannot parse).                        *)
(***************************************************************************)
EXTENDS Integers, Sequences, FiniteSets, TLC

VARIABLES
    df,        \* self.df: the loaded dataset, a sequence of rows
    nread,     \* how many irregular rows the loader has read
    pc,        \* "headers" (the frame is read, its headers as in the file),
               \* "schema_error" (the headers were refused),
               \* "loading" (the rows are being read), "done" (analyze ended),
               \* "again" (analyze was called a second time and ended)
    args,      \* the arguments of the last analyze call
    out,       \* what the last analyze call returned or raised
    reports,   \* the report files that exist in report_dir
    columns,   \* self.df.columns: the header labels of the frame, in order
    cells,     \* the values of the frame's first row, by column position
    schema,    \* what _normalize_column_names raised, if it did
    blanks,    \* what pd.to_datetime did with a blank string in the last call
    requests,  \* the requests at the analyze endpoint: where each stands, what
               \* it uploaded and asked for, and what it was answered
    temp_files \* the temporary upload files that exist

vars == <<df, nread, pc, args, out, reports, columns, cells, schema, blanks,
          requests, temp_files>>

----------------------------------------------------------------------------
(* Bounds of the model *)

\* rows read from the upload on top of the regular roster
MaxRows == 1

----------------------------------------------------------------------------
(* Program constants *)

DailyLimit == 12
RestLimit == 10
WeeklyLimit == 60
DaysLimit == 6
HoursPerDay == 24
DaysPerWeek == 7

\* pd.NaT: a missing timestamp
NaT == -1
\* a punch cell holding text that pd.to_datetime rejects
BadCell == -2

\* Python's None for an optional argument
None == "<None>"

----------------------------------------------------------------------------
(* Sequences and order *)

Range(s) == {s[i] : i \in DOMAIN s}

Min(S) == CHOOSE x \in S : \A y \in S : x <= y
Max(S) == CHOOSE x \in S : \A y \in S : x >= y

\* Python's str ordering on the strings the model uses
Alphabet == <<"Ann", "Bea", "E1", "E2", "Lee">>
Rank(s) == CHOOSE i \in DOMAIN Alphabet : Alphabet[i] = s

\* lexicographic order on tuples of integers of the same length. A key the
\* rules sort by holds Rank(s) for a string s, and Alphabet[k] gives it back.
RECURSIVE TupleLess(_, _)
TupleLess(a, b) ==
    IF a = <<>> THEN FALSE
    ELSE IF Head(a) # Head(b) THEN Head(a) < Head(b)
    ELSE TupleLess(Tail(a), Tail(b))

\* a set of tuples as a sequence in ascending lexicographic order
RECURSIVE SortKeys(_)
SortKeys(S) ==
    IF S = {} THEN <<>>
    ELSE LET m == CHOOSE x \in S : \A y \in S \ {x} : TupleLess(x, y)
         IN  <<m>> \o SortKeys(S \ {m})

----------------------------------------------------------------------------
(* Calendar *)

DateOf(t) == t \div HoursPerDay
WeekOf(d) == d \div DaysPerWeek
At(day, hour) == day * HoursPerDay + hour

\* the date strings pd.to_datetime understands, with the day each denotes
Calendar ==
    ( "2025-01-07" :> 1 ) @@ ( "01/07/2025" :> 1 ) @@ ( "2025-01-08" :> 2 ) @@
    ( "2025-01-10" :> 4 ) @@ ( "2025-01-20" :> 14 )

\* pd.to_datetime(s, errors="raise") on one string. pandas maps the empty
\* string to NaT; for a string of blanks only the outcome depends on the
\* parser underneath, so ws ("raise" or "NaT") names what this build does.
to_datetime(s, ws) ==
    IF s \in DOMAIN Calendar THEN [ok |-> TRUE, t |-> At(Calendar[s], 0)]
    ELSE IF s = "" THEN [ok |-> TRUE, t |-> NaT]
    ELSE IF s = " " /\ ws = "NaT" THEN [ok |-> TRUE, t |-> NaT]
    ELSE [ok |-> FALSE, t |-> NaT]

\* str.strip() on the strings the model uses
strip(s) == IF s = " " THEN "" ELSE IF s = " 2025-01-10 " THEN "2025-01-10" ELSE s

notna(x) == x # NaT

\* pd.to_datetime(df[col]) on a whole column raises when a cell is unparseable
ColumnsParse(d) ==
    \A i \in DOMAIN d : d[i].InPunchTime # BadCell /\ d[i].OutPunchTime # BadCell

----------------------------------------------------------------------------
(* Shift hours, as each rule computes them *)

\* time_diff = punch_out - punch_in, plus one day when negative; in hours
Duration(punch_in, punch_out) ==
    LET time_diff == punch_out - punch_in
    IN  IF time_diff < 0 THEN time_diff + HoursPerDay ELSE time_diff

\* hours_list / daily_hours: one record per row whose two punches are present
RECURSIVE PunchHours(_)
PunchHours(d) ==
    IF d = <<>> THEN <<>>
    ELSE LET row == Head(d)
             punch_in == row.InPunchTime
             punch_out == row.OutPunchTime
         IN  (IF notna(punch_in) /\ notna(punch_out)
              THEN << [EECode |-> row.EECode, Firstname |-> row.Firstname,
                       Lastname |-> row.Lastname, Date |-> DateOf(punch_in),
                       Hours |-> Duration(punch_in, punch_out)] >>
              ELSE <<>>) \o PunchHours(Tail(d))

RECURSIVE SumHours(_)
SumHours(s) == IF s = <<>> THEN 0 ELSE Head(s).Hours + SumHours(Tail(s))

----------------------------------------------------------------------------
(* The api variant's rules.                                                *)
(* A flagged entry carries the fields the code emits. EECode (and Week for *)
(* the weekly list) is the key of the group the entry was built from: the  *)
(* code groups by it but does not emit it.                                 *)

\* flag_excess_hours: daily totals per (EECode, Firstname, Lastname, Date)
flag_excess_hours(d) ==
    LET hours_list == PunchHours(d)
        K(h) == <<Rank(h.EECode), Rank(h.Firstname), Rank(h.Lastname), h.Date>>
        keys == SortKeys({K(h) : h \in Range(hours_list)})
        daily_totals == [i \in DOMAIN keys |->
            [EECode |-> Alphabet[keys[i][1]],
             Name |-> <<Alphabet[keys[i][2]], Alphabet[keys[i][3]]>>,
             Date |-> keys[i][4],
             Total_Hours |-> SumHours(SelectSeq(hours_list,
                                 LAMBDA h : K(h) = keys[i]))]]
    IN  SelectSeq(daily_totals, LAMBDA row : row.Total_Hours > DailyLimit)

\* the daily_punches frame of flag_low_rest_hours: groupby drops the rows
\* whose Date is NaT; min and max skip NaT and give NaT for an all-NaT group
daily_punches(d) ==
    LET rows == {i \in DOMAIN d : notna(d[i].InPunchTime)}
        K(i) == <<Rank(d[i].EECode), Rank(d[i].Lastname), Rank(d[i].Firstname),
                  DateOf(d[i].InPunchTime)>>
        keys == SortKeys({K(i) : i \in rows})
    IN  [j \in DOMAIN keys |->
            LET grp == {i \in rows : K(i) = keys[j]}
                outs == {d[i].OutPunchTime : i \in grp} \ {NaT}
            IN  [EECode |-> Alphabet[keys[j][1]], Lastname |-> Alphabet[keys[j][2]],
                 Firstname |-> Alphabet[keys[j][3]], Date |-> keys[j][4],
                 InPunchTime_dt |-> Min({d[i].InPunchTime : i \in grp}),
                 OutPunchTime_dt |-> IF outs = {} THEN NaT ELSE Max(outs)]]

\* flag_low_rest_hours: rest between consecutive rows of daily_punches
flag_low_rest_hours(d) ==
    LET dp == daily_punches(d)
        Flag(idx) ==
            LET curr_day == dp[idx]
                prev_day == dp[idx - 1]
                rest_hours == curr_day.InPunchTime_dt - prev_day.OutPunchTime_dt
            IN  IF /\ curr_day.EECode = prev_day.EECode
                   /\ curr_day.Lastname = prev_day.Lastname
                   /\ curr_day.Firstname = prev_day.Firstname
                   /\ notna(curr_day.InPunchTime_dt)
                   /\ notna(prev_day.OutPunchTime_dt)
                   /\ rest_hours >= 0
                   /\ rest_hours < RestLimit
                THEN << [EECode |-> curr_day.EECode,
                         Name |-> <<curr_day.Firstname, curr_day.Lastname>>,
                         Date |-> curr_day.Date,
                         Rest_Hours |-> rest_hours,
                         Previous_Day_Last_Out |-> prev_day.OutPunchTime_dt,
                         Current_Day_First_In |-> curr_day.InPunchTime_dt] >>
                ELSE <<>>
        Loop[idx \in 1..(Len(dp) + 1)] ==
            IF idx > Len(dp) THEN <<>>
            ELSE (IF idx = 1 THEN <<>> ELSE Flag(idx)) \o Loop[idx + 1]
    IN  Loop[1]

\* Python truthiness of an optional string argument (if start_date: ...)
truthy(s) == s # None /\ s # ""

\* the date-range filter of the weekly and the working-days rule. The rule
\* gets the raw argument strings. A comparison with NaT is False.
range_raises(start_date, end_date, ws) ==
    \/ truthy(start_date) /\ ~to_datetime(start_date, ws).ok
    \/ truthy(end_date) /\ ~to_datetime(end_date, ws).ok

range_filter(df_daily, start_date, end_date, ws) ==
    LET start_date_dt == to_datetime(start_date, ws).t
        end_date_dt == to_datetime(end_date, ws).t
    IN  SelectSeq(df_daily, LAMBDA h :
            /\ truthy(start_date) =>
                 notna(start_date_dt) /\ At(h.Date, 0) >= start_date_dt
            /\ truthy(end_date) =>
                 notna(end_date_dt) /\ At(h.Date, 0) <= end_date_dt)

\* what a rule hands back: a list, or an exception leaving the rule
Returned(list) == [raised |-> FALSE, value |-> list]
Raised == [raised |-> TRUE, value |-> <<>>]

\* flag_weekly_excess_hours: hours per (EECode, Firstname, Lastname, Week)
flag_weekly_excess_hours(d, start_date, end_date, ws) ==
    LET daily_hours == PunchHours(d)
        df_daily == range_filter(daily_hours, start_date, end_date, ws)
        K(h) == <<Rank(h.EECode), Rank(h.Firstname), Rank(h.Lastname),
                  WeekOf(h.Date)>>
        keys == SortKeys({K(h) : h \in Range(df_daily)})
        weekly_summary == [i \in DOMAIN keys |->
            LET grp == SelectSeq(df_daily, LAMBDA h : K(h) = keys[i])
            IN  [EECode |-> Alphabet[keys[i][1]],
                 Name |-> <<Alphabet[keys[i][2]], Alphabet[keys[i][3]]>>,
                 Week |-> keys[i][4],
                 Week_Start |-> Min({h.Date : h \in Range(grp)}),
                 Week_End |-> Max({h.Date : h \in Range(grp)}),
                 Total_Weekly_Hours |-> SumHours(grp)]]
    IN  IF daily_hours = <<>> THEN Returned(<<>>)
        ELSE IF range_raises(start_date, end_date, ws) THEN Raised
        ELSE Returned(SelectSeq(weekly_summary,
                 LAMBDA row : row.Total_Weekly_Hours >= WeeklyLimit))

\* the rows the working-days rule counts: positive hours, inside the range,
\* not on a holiday. A NaT among the parsed holidays matches no date.
working_days_raises(exclude_holidays, ws) ==
    \E i \in DOMAIN exclude_holidays : ~to_datetime(exclude_holidays[i], ws).ok

working_days_rows(d, start_date, end_date, exclude_holidays, ws) ==
    LET daily_hours == SelectSeq(PunchHours(d), LAMBDA h : h.Hours > 0)
        exclude_holidays_dt ==
            {DateOf(to_datetime(exclude_holidays[i], ws).t) :
                i \in {j \in DOMAIN exclude_holidays :
                         notna(to_datetime(exclude_holidays[j], ws).t)}}
    IN  SelectSeq(range_filter(daily_hours, start_date, end_date, ws),
                  LAMBDA h : h.Date \notin exclude_holidays_dt)

\* flag_excess_working_days: distinct dates per (EECode, names, Week)
flag_excess_working_days(d, start_date, end_date, exclude_holidays, ws) ==
    LET df_daily == working_days_rows(d, start_date, end_date, exclude_holidays, ws)
        K(h) == <<Rank(h.EECode), Rank(h.Firstname), Rank(h.Lastname),
                  WeekOf(h.Date)>>
        keys == SortKeys({K(h) : h \in Range(df_daily)})
        days_per_week == [i \in DOMAIN keys |->
            LET dates == {h.Date : h \in {x \in Range(df_daily) : K(x) = keys[i]}}
            IN  [EECode |-> Alphabet[keys[i][1]],
                 Name |-> <<Alphabet[keys[i][2]], Alphabet[keys[i][3]]>>,
                 Days_Worked |-> Cardinality(dates), Week |-> keys[i][4],
                 First_Day |-> Min(dates), Last_Day |-> Max(dates)]]
    IN  IF SelectSeq(PunchHours(d), LAMBDA h : h.Hours > 0) = <<>> THEN Returned(<<>>)
        ELSE IF range_raises(start_date, end_date, ws) THEN Raised
        ELSE IF working_days_raises(exclude_holidays, ws) THEN Raised
        ELSE Returned(SelectSeq(days_per_week,
                 LAMBDA row : row.Days_Worked > DaysLimit))

----------------------------------------------------------------------------
(* The legacy variant's rules *)

\* flag_excess_hours (legacy): row by row, in the order of the dataset; a
\* cell that fails to parse raises inside the try and the row is skipped
legacy_flag_excess_hours(d) ==
    LET Flag(row) ==
            IF /\ notna(row.InPunchTime) /\ notna(row.OutPunchTime)
               /\ row.InPunchTime # BadCell /\ row.OutPunchTime # BadCell
               /\ Duration(row.InPunchTime, row.OutPunchTime) > DailyLimit
            THEN << [EECode |-> row.EECode,
                     Name |-> <<row.Firstname, row.Lastname>>,
                     Date |-> DateOf(row.InPunchTime),
                     Total_Hours |-> Duration(row.InPunchTime, row.OutPunchTime)] >>
            ELSE <<>>
        Loop[idx \in 1..(Len(d) + 1)] ==
            IF idx > Len(d) THEN <<>> ELSE Flag(d[idx]) \o Loop[idx + 1]
    IN  Loop[1]

\* flag_low_rest_hours (legacy): the rows themselves, sorted by person and
\* in-time (NaT last, ties in dataset order), compared pairwise
legacy_flag_low_rest_hours(d) ==
    LET K(i) == <<Rank(d[i].EECode), Rank(d[i].Lastname), Rank(d[i].Firstname),
                  IF notna(d[i].InPunchTime) THEN 0 ELSE 1, d[i].InPunchTime, i>>
        order == SortKeys({K(i) : i \in DOMAIN d})
        df_sorted == [j \in DOMAIN order |-> d[order[j][6]]]
        Flag(idx) ==
            LET curr_row == df_sorted[idx]
                prev_row == df_sorted[idx - 1]
                curr_in == curr_row.InPunchTime
                prev_out == prev_row.OutPunchTime
                rest_hours == curr_in - prev_out
            IN  IF /\ curr_row.EECode = prev_row.EECode
                   /\ curr_row.Lastname = prev_row.Lastname
                   /\ curr_row.Firstname = prev_row.Firstname
                   /\ notna(curr_in) /\ notna(prev_out)
                   /\ rest_hours >= 0 /\ rest_hours < RestLimit
                THEN << [EECode |-> curr_row.EECode,
                         Name |-> <<curr_row.Firstname, curr_row.Lastname>>,
                         Date |-> DateOf(curr_in),
                         Rest_Hours |-> rest_hours] >>
                ELSE <<>>
        Loop[idx \in 1..(Len(d) + 1)] ==
            IF idx > Len(d) THEN <<>>
            ELSE (IF idx = 1 THEN <<>> ELSE Flag(idx)) \o Loop[idx + 1]
    IN  Loop[1]

\* flag_excess_working_days (legacy): distinct dates per (EECode, names),
\* whatever week they fall in
legacy_flag_excess_working_days(d, start_date, end_date, exclude_holidays, ws) ==
    LET df_daily == working_days_rows(d, start_date, end_date, exclude_holidays, ws)
        K(h) == <<Rank(h.EECode), Rank(h.Firstname), Rank(h.Lastname)>>
        keys == SortKeys({K(h) : h \in Range(df_daily)})
        days_worked == [i \in DOMAIN keys |->
            LET dates == {h.Date : h \in {x \in Range(df_daily) : K(x) = keys[i]}}
            IN  [EECode |-> Alphabet[keys[i][1]],
                 Name |-> <<Alphabet[keys[i][2]], Alphabet[keys[i][3]]>>,
                 Days_Worked |-> Cardinality(dates),
                 First_Day |-> Min(dates), Last_Day |-> Max(dates)]]
    IN  IF SelectSeq(PunchHours(d), LAMBDA h : h.Hours > 0) = <<>> THEN Returned(<<>>)
        ELSE IF range_raises(start_date, end_date, ws) THEN Raised
        ELSE IF working_days_raises(exclude_holidays, ws) THEN Raised
        ELSE Returned(SelectSeq(days_worked,
                 LAMBDA row : row.Days_Worked > DaysLimit))

----------------------------------------------------------------------------
(* analyze (api) and analyze_payroll (legacy) *)

NoFlags == [excess_daily_hours |-> 0, low_rest_hours |-> 0,
            weekly_excess_hours |-> 0, excess_working_days |-> 0]
NoSummary == [rows_received |-> 0, employees |-> 0, flags |-> NoFlags]

\* nothing returned (yet)
NoResult ==
    [variant |-> "none", status |-> "none", error |-> <<>>, steps |-> <<>>,
     flagged_excess_hours |-> <<>>, flagged_low_rest_hours |-> <<>>,
     flagged_weekly_excess |-> <<>>, flagged_excess_days |-> <<>>,
     summary |-> NoSummary, warnings |-> <<>>, report_path |-> <<>>]

\* a ValueError leaving the call after the stages in steps; message is the
\* text of the exception, cut where a value is formatted into it
ValueError(variant, steps, message) ==
    [NoResult EXCEPT !.variant = variant, !.status = "error",
                     !.error = message, !.steps = steps]

\* _parse_date_str: None for a missing or blank argument
_parse_date_str(d, ws) ==
    IF d = None \/ strip(d) = "" THEN [ok |-> TRUE, none |-> TRUE, t |-> NaT]
    ELSE [ok |-> to_datetime(d, ws).ok, none |-> FALSE, t |-> to_datetime(d, ws).t]

\* the range check with >= in place of >: a call with start = end is refused
range_invalid_inclusive(start_dt, end_dt) ==
    ~start_dt.none /\ ~end_dt.none /\ start_dt.t >= end_dt.t

\* if start_dt and end_dt and start_dt > end_dt
range_invalid(start_dt, end_dt) ==
    ~start_dt.none /\ ~end_dt.none /\ start_dt.t > end_dt.t

\* _parse_holidays: the entries that fail to parse, blank ones skipped
bad_holidays(exclude_holidays, ws) ==
    {i \in DOMAIN exclude_holidays :
        /\ strip(exclude_holidays[i]) # ""
        /\ ~to_datetime(strip(exclude_holidays[i]), ws).ok}

\* self.df['EECode'].nunique()
employees(d) == Cardinality({d[i].EECode : i \in DOMAIN d})

\* the name of the report file of a request
report_file(request_id) == <<"payroll_report_", request_id, ".xlsx">>

\* the report step of analyze: a failure becomes a warning; report_path is
\* assigned after makedirs and before the workbook is written
report_warnings(io) ==
    IF io = "ok" THEN <<>> ELSE <<"Report generation failed: ">>

report_path_after(io, request_id) ==
    IF io = "makedirs" THEN <<>> ELSE report_file(request_id)

\* analyze up to the summary: the validation, the four rules, the counts
analysis(d, start_date, end_date, exclude_holidays, ws) ==
    LET start_dt == _parse_date_str(start_date, ws)
        end_dt == _parse_date_str(end_date, ws)
        bad == bad_holidays(exclude_holidays, ws)
        flagged_excess == flag_excess_hours(d)
        flagged_rest == flag_low_rest_hours(d)
        weekly == flag_weekly_excess_hours(d, start_date, end_date, ws)
        days == flag_excess_working_days(d, start_date, end_date, exclude_holidays, ws)
        rules == <<"flag_excess_hours", "flag_low_rest_hours",
                   "flag_weekly_excess_hours", "flag_excess_working_days">>
        checks == <<"parse_start", "parse_end", "range", "parse_holidays">>
    IN  IF ~start_dt.ok
        THEN ValueError("api", SubSeq(checks, 1, 1), <<"Invalid start_date: ", start_date>>)
        ELSE IF ~end_dt.ok
        THEN ValueError("api", SubSeq(checks, 1, 2), <<"Invalid end_date: ", end_date>>)
        ELSE IF range_invalid(start_dt, end_dt)
        THEN ValueError("api", SubSeq(checks, 1, 3),
                 <<"start_date must be earlier than or equal to end_date.">>)
        ELSE IF bad # {}
        THEN ValueError("api", checks,
                 <<"Invalid holiday date: ", strip(exclude_holidays[Min(bad)])>>)
        ELSE IF ~ColumnsParse(d)
        THEN ValueError("api", checks \o SubSeq(rules, 1, 1), <<"to_datetime">>)
        ELSE IF weekly.raised
        THEN ValueError("api", checks \o SubSeq(rules, 1, 3), <<"to_datetime">>)
        ELSE IF days.raised
        THEN ValueError("api", checks \o rules, <<"to_datetime">>)
        ELSE [variant |-> "api", status |-> "ok", error |-> <<>>,
              steps |-> checks \o rules \o <<"summary">>,
              flagged_excess_hours |-> flagged_excess,
              flagged_low_rest_hours |-> flagged_rest,
              flagged_weekly_excess |-> weekly.value,
              flagged_excess_days |-> days.value,
              summary |->
                  [rows_received |-> Len(d), employees |-> employees(d),
                   flags |-> [excess_daily_hours |-> Len(flagged_excess),
                              low_rest_hours |-> Len(flagged_rest),
                              weekly_excess_hours |-> Len(weekly.value),
                              excess_working_days |-> Len(days.value)]],
              warnings |-> <<>>,
              report_path |-> <<>>]

\* the report step with no try around it: a failure leaves analyze
report_raises(r, request_id, io) ==
    IF r.status # "ok" THEN r
    ELSE IF io # "ok" THEN ValueError("api", r.steps \o <<"report">>, <<"OSError">>)
    ELSE [r EXCEPT !.steps = @ \o <<"report">>,
                   !.report_path = report_file(request_id)]

\* the report step of analyze on the result r so far: io is what the file
\* system does ("ok", or the failure of "makedirs" or of the "write"); the
\* except clause turns a failure into a warning
report(r, request_id, io) ==
    IF r.status # "ok" THEN r
    ELSE [r EXCEPT !.steps = @ \o <<"report">>,
                   !.warnings = @ \o report_warnings(io),
                   !.report_path = report_path_after(io, request_id)]

analyze(d, start_date, end_date, exclude_holidays, request_id, ws, io) ==
    report(analysis(d, start_date, end_date, exclude_holidays, ws), request_id, io)

\* self.df once the rules have run: each rule works on self.df.copy(), so
\* the frame is what it was. An in-place clean-up would have left this:
frame_without_open_punches(d) ==
    SelectSeq(d, LAMBDA row : notna(row.InPunchTime) /\ notna(row.OutPunchTime))

frame_after_rules(d) == d

\* analyze_payroll (legacy): no validation, no summary, no report
analyze_payroll(d, start_date, end_date, exclude_holidays, ws) ==
    LET weekly == flag_weekly_excess_hours(d, start_date, end_date, ws)
        days == legacy_flag_excess_working_days(d, start_date, end_date,
                                                exclude_holidays, ws)
        rules == <<"flag_excess_hours", "flag_low_rest_hours",
                   "flag_weekly_excess_hours", "flag_excess_working_days">>
    IN  IF ~ColumnsParse(d)
        THEN ValueError("legacy", SubSeq(rules, 1, 2), <<"to_datetime">>)
        ELSE IF weekly.raised
        THEN ValueError("legacy", SubSeq(rules, 1, 3), <<"to_datetime">>)
        ELSE IF days.raised
        THEN ValueError("legacy", rules, <<"to_datetime">>)
        ELSE [NoResult EXCEPT
                 !.variant = "legacy", !.status = "ok", !.steps = rules,
                 !.flagged_excess_hours = legacy_flag_excess_hours(d),
                 !.flagged_low_rest_hours = legacy_flag_low_rest_hours(d),
                 !.flagged_weekly_excess = weekly.value,
                 !.flagged_excess_days = days.value]

----------------------------------------------------------------------------
(* _normalize_column_names *)

REQUIRED_COLUMNS == <<"EECode", "Firstname", "Lastname", "InPunchTime", "OutPunchTime">>

\* alternative names -> standard name, in the order of the source
column_mappings ==
    ( "InPunchTime" :> <<"In time", "In Time", "Intime", "IN TIME", "in time",
                         "In_time", "InTime", "In_Time">> ) @@
    ( "OutPunchTime" :> <<"Out time", "Out Time", "Outtime", "OUT TIME", "out time",
                          "Out_time", "OutTime", "Out_Time">> ) @@
    ( "Firstname" :> <<"First name", "First Name", "FirstName", "FIRSTNAME",
                       "first name", "First_name", "first_name">> ) @@
    ( "Lastname" :> <<"Last name", "Last Name", "LastName", "LASTNAME",
                      "last name", "Last_name", "last_name">> ) @@
    ( "EECode" :> <<"EE Code", "Company Code", "EmployeeCode", "Employee_Code",
                    "employee_code", "EECODE", "ee_code">> )

\* str(c).replace(BOM, "").strip() on the labels the model uses
Padded == ( "<BOM>EECode" :> "EECode" ) @@ ( " In time " :> "In time" )
clean_header(c) == IF c \in DOMAIN Padded THEN Padded[c] ELSE c

\* the alias the loop over alternative_names stops at: the last one of the
\* list that the frame has
last_alias(standard_name, current_columns) ==
    LET alternative_names == column_mappings[standard_name]
        found == {i \in DOMAIN alternative_names :
                     alternative_names[i] \in Range(current_columns)}
    IN  IF standard_name \in Range(current_columns) \/ found = {} THEN None
        ELSE alternative_names[Max(found)]

\* the alias the loop over alternative_names stops at (break): the first one
\* of the list that the frame has; None when the standard name is there or
\* no alias is
first_alias(standard_name, current_columns) ==
    LET alternative_names == column_mappings[standard_name]
        found == {i \in DOMAIN alternative_names :
                     alternative_names[i] \in Range(current_columns)}
    IN  IF standard_name \in Range(current_columns) \/ found = {} THEN None
        ELSE alternative_names[Min(found)]

\* rename_dict: alias -> standard name
rename_dict(current_columns) ==
    LET renamed == {n \in DOMAIN column_mappings :
                       first_alias(n, current_columns) # None}
    IN  [alt \in {first_alias(n, current_columns) : n \in renamed} |->
            CHOOSE n \in renamed : first_alias(n, current_columns) = alt]

\* self.df.rename(columns=rename_dict): every column of that label is renamed
rename(current_columns) ==
    [i \in DOMAIN current_columns |->
        IF current_columns[i] \in DOMAIN rename_dict(current_columns)
        THEN rename_dict(current_columns)[current_columns[i]]
        ELSE current_columns[i]]

missing_columns(cols) ==
    SelectSeq(REQUIRED_COLUMNS, LAMBDA col : col \notin Range(cols))

\* no exception, or the ValueError of _normalize_column_names
NoSchemaError == [raised |-> FALSE, missing |-> <<>>, available |-> <<>>]
SchemaError(missing, available) ==
    [raised |-> TRUE, missing |-> missing, available |-> available]

----------------------------------------------------------------------------
(* The analyze endpoints: routes/payroll.py of both variants *)

\* the requests the model follows
Requests == {1, 2}

\* _safe_request_id: "req_" and twelve hex digits of a fresh uuid4
_safe_request_id(q) == IF q = 1 THEN "req_1" ELSE "req_2"

\* one name for every temporary file
shared_temp_name(q) == "tmp_upload"

\* tempfile.NamedTemporaryFile(delete=False): a file under a name no other
\* file has
temp_name(q) == IF q = 1 THEN "tmp_1" ELSE "tmp_2"

\* what leaves the try block: a return, or an exception of one of the kinds
\* the except clauses tell apart
Return(r) == [kind |-> "return", status_code |-> 200, message |-> <<>>, value |-> r]
Raise(kind, status_code, message) ==
    [kind |-> kind, status_code |-> status_code, message |-> message, value |-> NoResult]

\* raise HTTPException(status_code, detail)
HTTPException(status_code, detail) == Raise("HTTPException", status_code, detail)

\* what the client is answered
NoResponse == [status_code |-> 0, detail |-> <<>>, body |-> NoResult, download_url |-> <<>>]
Response(status_code, detail) == [NoResponse EXCEPT !.status_code = status_code, !.detail = detail]

\* filename_lower.endswith(".csv") or ... of the api route
api_extensions == {".csv", ".xlsx", ".xlsm", ".xltx", ".xltm"}
\* file.filename.endswith(('.xlsx', '.xls')) of the legacy route
legacy_extensions == {".xlsx", ".xls"}
\* the extensions __init__ reads
service_extensions == {".xlsx", ".xls", ".csv"}

\* the checks ahead of the try block; None when the request passes them
api_rejects(upload) ==
    IF upload.filename = "" THEN HTTPException(400, <<"No file provided.">>)
    ELSE IF upload.extension \notin api_extensions
    THEN HTTPException(400, <<"Unsupported file type. Please upload a .csv or .xlsx file.">>)
    ELSE Return(NoResult)

legacy_rejects(upload) ==
    IF upload.extension \notin legacy_extensions
    THEN HTTPException(400, <<"Invalid file type. Please upload an Excel file (.xlsx or .xls)">>)
    ELSE Return(NoResult)

\* [h.strip() for h in exclude_holidays.split(",") if h.strip()]; the form
\* field is held as the pieces split(",") gives, None when it was not sent
holidays_list(exclude_holidays) ==
    IF exclude_holidays = None THEN <<>>
    ELSE LET kept == SelectSeq(exclude_holidays, LAMBDA h : strip(h) # "")
         IN  [i \in DOMAIN kept |-> strip(kept[i])]

\* PayrollService.load_file(temp_path): the class PayrollService has no
\* attribute of that name, so the expression raises AttributeError
load_file(path) == Raise("Exception", 500, <<"AttributeError">>)

\* PayrollService.__init__ on a file with these headers
service_init(upload) ==
    IF upload.extension \notin service_extensions
    THEN Raise("ValueError", 400, <<"Unsupported file type: ">>)
    ELSE IF missing_columns(rename(upload.columns)) # <<>>
    THEN Raise("ValueError", 400, <<"Missing required columns: ">>
                                     \o missing_columns(rename(upload.columns)))
    ELSE Return(NoResult)

\* a result of the service as what leaves the call
service_outcome(r) ==
    IF r.status = "ok" THEN Return(r) ELSE Raise("ValueError", 400, r.error)

\* the try block of the api route from the await on: the empty upload is
\* refused, then load_file is looked up
api_try(upload, call, request_id, ws, io) ==
    IF upload.content = "empty" THEN HTTPException(400, <<"Uploaded file is empty.">>)
    ELSE load_file(upload)

\* the try block of the legacy route from the await on: read_excel on the
\* temporary file, the first two rules, then the range and the holidays
legacy_try(upload, call, path, ws, files) ==
    IF path \notin files THEN Raise("Exception", 500, <<"FileNotFoundError">>)
    ELSE IF \E col \in {"InPunchTime", "OutPunchTime"} : col \notin Range(upload.columns)
    THEN Raise("Exception", 500, <<"KeyError">>)
    ELSE service_outcome(analyze_payroll(upload.rows, call.start_date, call.end_date,
                                         holidays_list(call.exclude_holidays), ws))

\* the except clauses of the api route: an HTTPException goes on as it is, a
\* ValueError becomes a 400 with the text of the exception, anything else a 500
api_except(o, request_id) ==
    IF o.kind = "return"
    THEN [NoResponse EXCEPT !.status_code = 200, !.body = o.value]
    ELSE IF o.kind = "HTTPException" THEN Response(o.status_code, o.message)
    ELSE IF o.kind = "ValueError"
    THEN Response(400, o.message \o <<" (request_id=", request_id, ")">>)
    ELSE Response(500, <<"Unexpected error: ">> \o o.message
                       \o <<" (request_id=", request_id, ")">>)

\* the except clauses of the legacy route
legacy_except(o) ==
    IF o.kind = "return"
    THEN [NoResponse EXCEPT !.status_code = 200, !.body = o.value]
    ELSE IF o.kind = "ValueError" THEN Response(400, <<"Invalid input: ">> \o o.message)
    ELSE Response(500, <<"Internal server error: ">> \o o.message)

\* a caller of the service gets the result, or the exception as it is
service_except(o) ==
    IF o.kind = "return" THEN [NoResponse EXCEPT !.body = o.value]
    ELSE Response(0, o.message)

\* what a request leaves the second half of its handler with, in a file
\* system that holds the temporary files in files
outcome_of(variant, upload, call, q, ws, io, files) ==
    IF variant = "api" THEN api_try(upload, call, _safe_request_id(q), ws, io)
    ELSE IF variant = "legacy" THEN legacy_try(upload, call, temp_name(q), ws, files)
    ELSE service_outcome(analyze(upload.rows, call.start_date, call.end_date,
                                 holidays_list(call.exclude_holidays),
                                 _safe_request_id(q), ws, io))

response_to(variant, o, q) ==
    IF variant = "api" THEN api_except(o, _safe_request_id(q))
    ELSE IF variant = "legacy" THEN legacy_except(o)
    ELSE service_except(o)

----------------------------------------------------------------------------
(* The inputs the model draws from *)

Row(ee, first, last, punch_in, punch_out) ==
    [EECode |-> ee, Firstname |-> first, Lastname |-> last,
     InPunchTime |-> punch_in, OutPunchTime |-> punch_out]

\* a regular schedule of E1: n consecutive days from day first, one shift a
\* day from 08:00 lasting len hours
Roster(first, n, len) ==
    [i \in 1..n |-> Row("E1", "Ann", "Lee", At(first + i - 1, 8),
                        At(first + i - 1, 8) + len)]

Rosters ==
    { <<>>,
      Roster(0, 5, 12),    \* Mon-Fri, 12 h a day: 60 h, 12 h of rest
      Roster(0, 5, 14),    \* Mon-Fri, 14 h a day: 70 h, 10 h of rest
      Roster(0, 7, 8),     \* Mon-Sun, 8 h a day: 7 days in one week
      Roster(3, 7, 8) }    \* Thu-Wed, 8 h a day: 7 days over two weeks

\* irregular rows of the upload
ExtraRows ==
    { Row("E1", "Ann", "Lee", At(1, 20), At(1, 21)),  \* a second shift on Tue
      Row("E1", "Bea", "Lee", At(1, 21), At(2, 1)),   \* E1 under another name
      Row("E1", "Bea", "Lee", At(1, 6), At(1, 20)),   \* 14 h under that name
      Row("E2", "Ann", "Lee", At(2, 8), At(2, 22)),   \* 14 h on Wed
      Row("E1", "Ann", "Lee", At(5, 4), At(5, 6)),    \* Sat 04:00, early
      Row("E1", "Ann", "Lee", At(1, 22), At(2, 10)),  \* overnight into Wed
      Row("E2", "Bea", "Lee", At(1, 22), At(1, 6)),   \* out before in
      Row("E1", "Ann", "Lee", At(1, 22), At(1, 6)),   \* the same, after a shift
      Row("E2", "Ann", "Lee", At(9, 8), At(7, 6)),    \* out 50 h before in
      Row("E1", "Ann", "Lee", At(1, 6), NaT),         \* no out punch
      Row("E2", "Ann", "Lee", BadCell, At(1, 6)),     \* unparseable in
      Row("E1", "Ann", "Lee", At(5, 8), At(5, 8)) }   \* zero hours on Sat

StartDates == {None, " ", "2025-13-45", "2025-01-08"}
EndDates == {"", "tomorrow", "2025-01-07", "2025-01-08"}
HolidayLists == { <<>>, <<"", "2025-01-10">>, <<" ", "01/07/2025">>, <<"Xmas">> }

Args == [start_date : StartDates, end_date : EndDates,
         exclude_holidays : HolidayLists]

NoArgs == [start_date |-> None, end_date |-> None, exclude_holidays |-> <<>>]

RequestIds == {"req_1"}

\* the header rows of the uploads: for each field the labels the file has for
\* it, in the order of the file, and a column that is no field at all
HeadersOf ==
    ( "EECode" :> { <<"EECode">>, <<"<BOM>EECode">>, <<"EmployeeCode", "Company Code">>,
                    <<"ee_code", "EECode">>, <<"Emp">> } ) @@
    ( "Firstname" :> { <<"Firstname">>, <<"first_name", "FirstName">>, <<>> } ) @@
    ( "Lastname" :> { <<"Lastname">>, <<"LASTNAME">> } ) @@
    ( "InPunchTime" :> { <<"InPunchTime">>, <<" In time ">>, <<"In Time", "In time">>,
                         <<"In_Time", "InPunchTime">>, <<"InTime", "In Time">>, <<>> } ) @@
    ( "OutPunchTime" :> { <<"OutPunchTime">>, <<"Out_Time", "OUT TIME">> } )

HeaderRows ==
    { ee \o first \o last \o <<"Dept">> \o punch_in \o punch_out :
        ee \in HeadersOf["EECode"], first \in HeadersOf["Firstname"],
        last \in HeadersOf["Lastname"], punch_in \in HeadersOf["InPunchTime"],
        punch_out \in HeadersOf["OutPunchTime"] }

\* what a client uploads: the name of the file with its extension, whether
\* it has any bytes, the header row and the rows
Upload(filename, extension, content, cols, rows) ==
    [filename |-> filename, extension |-> extension, content |-> content,
     columns |-> cols, rows |-> rows]

NoUpload == Upload("", "", "empty", <<>>, <<>>)

Uploads ==
    { NoUpload,
      Upload("notes.txt", ".txt", "table", REQUIRED_COLUMNS, Roster(0, 5, 14)),
      Upload("punches.xlsx", ".xlsx", "empty", <<>>, <<>>),
      Upload("punches.csv", ".csv", "table", REQUIRED_COLUMNS, Roster(0, 7, 8)),
      Upload("punches.xlsx", ".xlsx", "table",
             <<"EECode", "Firstname", "Lastname", "OutPunchTime">>, <<>>),
      Upload("punches.xlsx", ".xlsx", "table",
             <<"EECode", "Firstname", "Lastname", "In Time", "OutPunchTime">>,
             Roster(0, 5, 12)),
      Upload("punches.xlsx", ".xlsx", "table", REQUIRED_COLUMNS, <<>>),
      Upload("punches.xlsx", ".xlsx", "table", REQUIRED_COLUMNS, Roster(0, 5, 14)),
      Upload("punches.xlsx", ".xlsx", "table", REQUIRED_COLUMNS, Roster(0, 7, 15)) }

\* the form fields of a request
Call(start_date, end_date, exclude_holidays) ==
    [start_date |-> start_date, end_date |-> end_date,
     exclude_holidays |-> exclude_holidays]

NoCall == Call(None, None, None)

Calls ==
    { Call("2025-01-07", "2025-01-20", <<" 2025-01-10 ", "">>),
      Call("2025-01-08", "2025-01-07", <<"2025-01-10">>),
      Call("2025-13-45", "2025-01-20", <<" ", " 2025-01-10 ">>) }

\* who asks: a client of the api route, a client of the legacy route, or a
\* caller that uses the service of the api variant on a file of its own
Variants == {"api", "legacy", "service"}

----------------------------------------------------------------------------
(* The state machine *)

Init ==
    /\ df \in Rosters
    /\ nread = 0
    /\ pc = "loading"
    /\ args = NoArgs
    /\ out = NoResult
    /\ reports = {}
    /\ columns = REQUIRED_COLUMNS
    /\ cells = <<>>
    /\ schema = NoSchemaError
    /\ blanks = "raise"
    /\ requests = <<>>
    /\ temp_files = {}

\* the file loader reads one more row of the upload
ReadRow ==
    /\ pc = "loading"
    /\ nread < MaxRows
    /\ \E row \in ExtraRows : df' = Append(df, row)
    /\ nread' = nread + 1
    /\ UNCHANGED <<pc, args, out, reports, columns, cells, schema, blanks, requests, temp_files>>

\* what pd.to_datetime may do with a string of blanks; it is consulted only
\* when the call passes one
Blanks(a) ==
    IF \/ a.start_date = " " \/ a.end_date = " "
       \/ \E i \in DOMAIN a.exclude_holidays : a.exclude_holidays[i] = " "
    THEN {"raise", "NaT"} ELSE {"raise"}

\* the report files after a call with result r
reports_after(r, request_id, io) ==
    IF r.status = "ok" /\ io = "ok" THEN reports \cup {report_file(request_id)}
    ELSE reports

\* PayrollService(file).analyze(...) of the api variant
Analyze ==
    /\ pc = "loading"
    /\ \E a \in Args, request_id \in RequestIds :
          \E ws \in Blanks(a) :
             \E r \in {analysis(df, a.start_date, a.end_date, a.exclude_holidays, ws)} :
                /\ args' = a
                /\ blanks' = ws
                /\ \E io \in {"ok", "makedirs", "write"} :
                      /\ out' = report(r, request_id, io)
                      /\ reports' = reports_after(r, request_id, io)
                /\ df' = IF r.status = "ok" THEN frame_after_rules(df) ELSE df
    /\ pc' = "done"
    /\ UNCHANGED <<nread, columns, cells, schema, requests, temp_files>>

\* the same service object is asked again, with the same arguments
AnalyzeAgain ==
    /\ pc = "done" /\ out.variant = "api"
    /\ \E request_id \in RequestIds :
          \E r \in {analysis(df, args.start_date, args.end_date,
                             args.exclude_holidays, blanks)} :
             /\ \E io \in {"ok", "makedirs", "write"} :
                   /\ out' = report(r, request_id, io)
                   /\ reports' = reports_after(r, request_id, io)
             /\ df' = IF r.status = "ok" THEN frame_after_rules(df) ELSE df
    /\ pc' = "again"
    /\ UNCHANGED <<nread, args, columns, cells, schema, blanks, requests, temp_files>>

\* PayrollService(file).analyze_payroll(...) of the legacy variant
AnalyzePayroll ==
    /\ pc = "loading"
    /\ \E a \in Args :
          \E ws \in Blanks(a) :
             /\ args' = a
             /\ blanks' = ws
             /\ out' = analyze_payroll(df, a.start_date, a.end_date,
                                       a.exclude_holidays, ws)
    /\ pc' = "done"
    /\ UNCHANGED <<df, nread, reports, columns, cells, schema, requests, temp_files>>

Next == ReadRow \/ Analyze \/ AnalyzeAgain \/ AnalyzePayroll

Spec == Init /\ [][Next]_vars

\* PayrollService.__init__ up to its last statement: a frame has been read
\* from the file, with the headers the file has
InitColumns ==
    /\ columns \in HeaderRows
    /\ cells = [i \in DOMAIN columns |-> i]
    /\ schema = NoSchemaError
    /\ blanks = "raise"
    /\ requests = <<>>
    /\ temp_files = {}
    /\ pc = "headers"
    /\ df = <<>> /\ nread = 0 /\ args = NoArgs /\ out = NoResult /\ reports = {}

\* self._normalize_column_names()
NormalizeColumnNames ==
    /\ pc = "headers"
    /\ LET current_columns == [i \in DOMAIN columns |-> clean_header(columns[i])]
           renamed == rename(current_columns)
           missing == missing_columns(renamed)
       IN  /\ columns' = renamed
           /\ schema' = IF missing # <<>> THEN SchemaError(missing, renamed)
                         ELSE NoSchemaError
           /\ pc' = IF missing # <<>> THEN "schema_error" ELSE "loading"
    /\ UNCHANGED <<df, nread, args, out, reports, cells, blanks, requests, temp_files>>

NextColumns == NormalizeColumnNames

SpecColumns == InitColumns /\ [][NextColumns]_vars

\* a request that has not arrived
NoRequest ==
    [st |-> "idle", variant |-> "none", upload |-> NoUpload, call |-> NoCall,
     ws |-> "raise", io |-> "ok", among |-> {}, outcome |-> Return(NoResult),
     response |-> NoResponse]

\* the server is up and no request has arrived
InitRoute ==
    /\ df = <<>>
    /\ nread = 0
    /\ pc = "serving"
    /\ args = NoArgs
    /\ out = NoResult
    /\ reports = {}
    /\ columns = REQUIRED_COLUMNS
    /\ cells = <<>>
    /\ schema = NoSchemaError
    /\ blanks = "raise"
    /\ requests = [q \in Requests |-> NoRequest]
    /\ temp_files = {}

\* what stops a request ahead of the await
rejects(variant, upload) ==
    IF variant = "api" THEN api_rejects(upload)
    ELSE IF variant = "legacy" THEN legacy_rejects(upload)
    ELSE service_init(upload)

\* the answer to a request stopped there: the exception is raised outside
\* the try block
rejected(variant, o) ==
    IF variant = "service" THEN service_except(o) ELSE Response(o.status_code, o.message)

\* the temporary files the finally clause unlinks
unlinked(variant, upload, q) ==
    IF variant = "api" THEN (IF upload.content = "empty" THEN {} ELSE {temp_name(q)})
    ELSE IF variant = "legacy" THEN {temp_name(q)}
    ELSE {}

\* the arguments analyze gets from a request
call_args(call) ==
    [start_date |-> call.start_date, end_date |-> call.end_date,
     exclude_holidays |-> holidays_list(call.exclude_holidays)]

\* the other requests that are suspended at their await
in_flight(q) == {p \in Requests \ {q} : requests[p].st = "pending"}

\* a request arrives and runs up to its suspension point: the routes check
\* the file name, create the temporary file and await file.read(); the
\* direct caller constructs the service. A zero-byte upload to the legacy
\* route is left out: what read_excel raises on it depends on the pandas
\* version.
Receive(q) ==
    /\ pc = "serving"
    /\ requests[q].st = "idle"
    /\ \E variant \in Variants, upload \in Uploads, call \in Calls :
          /\ variant = "legacy" /\ upload.extension \in legacy_extensions
                => upload.content # "empty"
          /\ variant = "service" => upload.content = "table"
          /\ \E o \in {rejects(variant, upload)} :
                IF o.kind = "return"
                THEN /\ requests' = [requests EXCEPT ![q] =
                            [@ EXCEPT !.st = "pending", !.variant = variant,
                                      !.upload = upload, !.call = call]]
                     /\ temp_files' = IF variant = "service" THEN temp_files
                                      ELSE temp_files \cup {temp_name(q)}
                ELSE /\ requests' = [requests EXCEPT ![q] =
                            [@ EXCEPT !.st = "responded", !.variant = variant,
                                      !.upload = upload, !.call = call,
                                      !.outcome = o, !.response = rejected(variant, o)]]
                     /\ temp_files' = temp_files
    /\ UNCHANGED <<df, nread, pc, args, out, reports, columns, cells, schema, blanks>>

\* the request runs from its suspension point to its answer, with no await
\* in between: the rest of the try block, the except clauses and the
\* finally clause
Respond(q) ==
    /\ pc = "serving"
    /\ requests[q].st = "pending"
    /\ \E ws \in Blanks(call_args(requests[q].call)),
          io \in IF requests[q].variant = "service" THEN {"ok", "makedirs", "write"}
                 ELSE {"ok"} :
          \E o \in {outcome_of(requests[q].variant, requests[q].upload,
                               requests[q].call, q, ws, io, temp_files)} :
             /\ requests' = [requests EXCEPT ![q] =
                    [@ EXCEPT !.st = "responded", !.ws = ws, !.io = io, !.outcome = o,
                              !.among = in_flight(q),
                              !.response = response_to(requests[q].variant, o, q)]]
             /\ temp_files' = temp_files
                                \ unlinked(requests[q].variant, requests[q].upload, q)
             /\ reports' = IF requests[q].variant = "service"
                           THEN reports_after(o.value, _safe_request_id(q), io)
                           ELSE reports
    /\ UNCHANGED <<df, nread, pc, args, out, columns, cells, schema, blanks>>

NextRoute == \E q \in Requests : Receive(q) \/ Respond(q)

SpecRoute == InitRoute /\ [][NextRoute]_vars

----------------------------------------------------------------------------
(* What the claims speak of *)

\* a shift record: a row whose two punches are both present and parse
IsShift(row) ==
    /\ row.InPunchTime \notin {NaT, BadCell}
    /\ row.OutPunchTime \notin {NaT, BadCell}

\* the work date of a row: the date of its in-instant
WorkDate(row) == DateOf(row.InPunchTime)

EECodes == {"E1", "E2"}
Dates == 0..(2 * DaysPerWeek)
Weeks == {WeekOf(dt) : dt \in Dates}

\* an optional date argument that is absent, empty or a calendar date
PlainDate(s) == s \in {None, ""} \cup DOMAIN Calendar

PlainArgs(a) ==
    /\ PlainDate(a.start_date) /\ PlainDate(a.end_date)
    /\ \A i \in DOMAIN a.exclude_holidays : PlainDate(a.exclude_holidays[i])

\* dt lies inside the requested range
InRange(dt, a) ==
    /\ a.start_date \in DOMAIN Calendar => dt >= Calendar[a.start_date]
    /\ a.end_date \in DOMAIN Calendar => dt <= Calendar[a.end_date]

\* the holiday set of a call
HolidaySet(a) ==
    {Calendar[h] : h \in Range(a.exclude_holidays) \cap DOMAIN Calendar}

\* the rows a call retains: work date inside the range and not a holiday
Retained(d, a) ==
    SelectSeq(d, LAMBDA row :
        /\ notna(row.InPunchTime)
        /\ InRange(WorkDate(row), a)
        /\ WorkDate(row) \notin HolidaySet(a))

\* the four lists that the variant of the last call computes from dataset d
\* under arguments a
ListsOf(variant, d, a) ==
    IF variant = "api"
    THEN <<flag_excess_hours(d), flag_low_rest_hours(d),
           flag_weekly_excess_hours(d, a.start_date, a.end_date, "raise").value,
           flag_excess_working_days(d, a.start_date, a.end_date,
                                    a.exclude_holidays, "raise").value>>
    ELSE <<legacy_flag_excess_hours(d), legacy_flag_low_rest_hours(d),
           flag_weekly_excess_hours(d, a.start_date, a.end_date, "raise").value,
           legacy_flag_excess_working_days(d, a.start_date, a.end_date,
                                           a.exclude_holidays, "raise").value>>

\* the four lists the last call returned
OutLists == <<out.flagged_excess_hours, out.flagged_low_rest_hours,
              out.flagged_weekly_excess, out.flagged_excess_days>>

Returned_ok == pc = "done" /\ out.status = "ok"

----------------------------------------------------------------------------
(* C1 *)

\* C1: filter before evaluation (date range). When a call with a start
\* and/or end date returns, each of the four flagged lists is what the rules
\* compute from the rows whose work date lies in [start, end] alone; and no
\* excess-daily or low-rest entry is dated outside [start, end].
C1_FilterDateRange ==
    (/\ Returned_ok /\ PlainArgs(args)
     /\ (args.start_date \in DOMAIN Calendar \/ args.end_date \in DOMAIN Calendar))
    => LET inside == SelectSeq(df, LAMBDA row :
                        notna(row.InPunchTime) /\ InRange(WorkDate(row), args))
       IN  /\ OutLists = ListsOf(out.variant, inside, args)
           /\ \A e \in Range(out.flagged_excess_hours) \cup
                       Range(out.flagged_low_rest_hours) : InRange(e.Date, args)

----------------------------------------------------------------------------
(* C2 *)

\* C2: filter before evaluation (holidays). When a call with holidays
\* returns, each of the four flagged lists is what the rules compute from the
\* rows whose work date is no holiday; the weekly total compared against 60
\* holds no hours worked on a holiday, and no excess-daily or low-rest entry
\* is dated on a holiday.
C2_FilterHolidays ==
    (Returned_ok /\ PlainArgs(args) /\ HolidaySet(args) # {})
    => LET working == SelectSeq(df, LAMBDA row :
                         notna(row.InPunchTime) /\ WorkDate(row) \notin HolidaySet(args))
       IN  /\ OutLists = ListsOf(out.variant, working, args)
           /\ \A e \in Range(out.flagged_excess_hours) \cup
                       Range(out.flagged_low_rest_hours) : e.Date \notin HolidaySet(args)

----------------------------------------------------------------------------
(* C7, and the duration the claims C3 and C5 sum *)

\* out - in, 24 h added once when negative, then clamped at 0
ClampedDuration(punch_in, punch_out) ==
    LET diff == punch_out - punch_in
        once == IF diff < 0 THEN diff + HoursPerDay ELSE diff
    IN  IF once < 0 THEN 0 ELSE once

\* C7: shift duration invariant. For every row with both timestamps present
\* the duration the rules use is out - in, plus 24 h once when negative,
\* clamped so that it is never negative.
C7_DurationNonNegative ==
    Returned_ok
    => \A i \in DOMAIN df :
          IsShift(df[i]) =>
             /\ Duration(df[i].InPunchTime, df[i].OutPunchTime) >= 0
             /\ Duration(df[i].InPunchTime, df[i].OutPunchTime)
                  = ClampedDuration(df[i].InPunchTime, df[i].OutPunchTime)
             /\ \A h \in Range(PunchHours(df)) : h.Hours >= 0

----------------------------------------------------------------------------
(* C3 *)

\* the shifts of employee e in dataset d
ShiftsOf(d, e) == {i \in DOMAIN d : IsShift(d[i]) /\ d[i].EECode = e}

RECURSIVE SumDurations(_, _)
SumDurations(d, I) ==
    IF I = {} THEN 0
    ELSE LET i == CHOOSE x \in I : TRUE
         IN  ClampedDuration(d[i].InPunchTime, d[i].OutPunchTime)
               + SumDurations(d, I \ {i})

\* the hours of employee e on date dt: every shift whose in-instant falls on dt
DayHours(d, e, dt) ==
    SumDurations(d, {i \in ShiftsOf(d, e) : WorkDate(d[i]) = dt})

\* C3: excess daily hours, in every variant. (employee, date) is in the
\* excess-daily list iff the employee's shifts starting on that date sum to
\* strictly more than 12 hours.
C3_ExcessDailyHours ==
    Returned_ok
    => \A e \in EECodes, dt \in Dates :
          (\E x \in Range(out.flagged_excess_hours) : x.EECode = e /\ x.Date = dt)
            <=> DayHours(df, e, dt) > DailyLimit

----------------------------------------------------------------------------
(* C4 *)

\* the dates on which employee e has a daily aggregate
DatesOf(d, e) == {WorkDate(d[i]) : i \in ShiftsOf(d, e)}
FirstIn(d, e, dt) ==
    Min({d[i].InPunchTime : i \in {j \in ShiftsOf(d, e) : WorkDate(d[j]) = dt}})
LastOut(d, e, dt) ==
    Max({d[i].OutPunchTime : i \in {j \in ShiftsOf(d, e) : WorkDate(d[j]) = dt}})

\* the daily aggregate of e on dt has an immediate predecessor (ordered by
\* first-in, that is by date) and the rest since its last-out is in [0, 10)
LowRest(d, e, dt) ==
    /\ dt \in DatesOf(d, e)
    /\ \E p \in DatesOf(d, e) :
          /\ p < dt
          /\ \A q \in DatesOf(d, e) : ~(p < q /\ q < dt)
          /\ FirstIn(d, e, dt) - LastOut(d, e, p) >= 0
          /\ FirstIn(d, e, dt) - LastOut(d, e, p) < RestLimit

\* C4: low rest hours. A daily aggregate of an employee is flagged iff it has
\* an immediate predecessor of the same employee and 0 <= rest < 10, where
\* rest = current first-in - previous last-out.
C4_LowRestHours ==
    Returned_ok
    => \A e \in EECodes, dt \in Dates :
          (\E x \in Range(out.flagged_low_rest_hours) : x.EECode = e /\ x.Date = dt)
            <=> LowRest(df, e, dt)

----------------------------------------------------------------------------
(* C5, C6 *)

\* the retained shifts of employee e in week w
WeekShifts(d, a, e, w) ==
    {i \in ShiftsOf(d, e) :
        /\ WeekOf(WorkDate(d[i])) = w
        /\ InRange(WorkDate(d[i]), a)
        /\ WorkDate(d[i]) \notin HolidaySet(a)}

\* C5: weekly excess hours. (employee, week) is in the weekly-excess list iff
\* the employee's daily totals over the retained work dates of that week sum
\* to 60 hours or more.
C5_WeeklyExcessHours ==
    (Returned_ok /\ PlainArgs(args))
    => \A e \in EECodes, w \in Weeks :
          (\E x \in Range(out.flagged_weekly_excess) : x.EECode = e /\ x.Week = w)
            <=> SumDurations(df, WeekShifts(df, args, e, w)) >= WeeklyLimit

\* the weeks an excess-days entry speaks of: its Week in the api variant; the
\* legacy entry has only a first and a last day
EntryWeeks(x) ==
    IF out.variant = "api" THEN {x.Week}
    ELSE {w \in Weeks : WeekOf(x.First_Day) <= w /\ w <= WeekOf(x.Last_Day)}

\* C6: excess working days, in every variant. (employee, week) is in the
\* excess-days list iff the employee has more than 6 distinct retained work
\* dates inside that one week.
C6_ExcessWorkingDays ==
    (Returned_ok /\ PlainArgs(args))
    => \A e \in EECodes, w \in Weeks :
          (\E x \in Range(out.flagged_excess_days) : x.EECode = e /\ w \in EntryWeeks(x))
            <=> Cardinality({WorkDate(df[i]) : i \in WeekShifts(df, args, e, w)})
                   > DaysLimit

----------------------------------------------------------------------------
(* C8 *)

\* the shift records a call retains
RetainedShifts(d, a) == {i \in DOMAIN Retained(d, a) : IsShift(Retained(d, a)[i])}

\* C8: zero usable rows is a hard error. A call whose dataset holds no row,
\* no parseable row, or no row inside the range and off the holidays, fails
\* and returns no result.
C8_NoValidDataError ==
    (pc = "done" /\ PlainArgs(args) /\ RetainedShifts(df, args) = {})
    => out.status = "error"

----------------------------------------------------------------------------
(* C9 *)

\* both bounds are calendar dates and start is later than end
StartAfterEnd(a) ==
    /\ a.start_date \in DOMAIN Calendar /\ a.end_date \in DOMAIN Calendar
    /\ Calendar[a.start_date] > Calendar[a.end_date]

RangeError == <<"start_date must be earlier than or equal to end_date.">>

\* the stages of analyze that do work: the four rules, the summary, the report
WorkSteps == {"flag_excess_hours", "flag_low_rest_hours",
              "flag_weekly_excess_hours", "flag_excess_working_days",
              "summary", "report"}

NoWorkDone ==
    /\ Range(out.steps) \cap WorkSteps = {}
    /\ OutLists = <<<<>>, <<>>, <<>>, <<>>>>
    /\ out.summary = NoSummary
    /\ reports = {}

\* C9: the range check precedes all work. analyze fails with the range error
\* exactly when both bounds are given and start > end (start = end is
\* accepted), and then no rule has run, no summary is computed and no report
\* file exists.
C9_RangeCheckFirst ==
    (pc = "done" /\ out.variant = "api"
       /\ args.start_date \in DOMAIN Calendar /\ args.end_date \in DOMAIN Calendar)
    => /\ out.error = RangeError <=> StartAfterEnd(args)
       /\ StartAfterEnd(args) => out.status = "error" /\ NoWorkDone

\* a call with start > end on a dataset whose rules would have flagged a day
C9_Witness ==
    /\ pc = "done" /\ out.variant = "api"
    /\ StartAfterEnd(args)
    /\ ColumnsParse(df) /\ flag_excess_hours(df) # <<>>

----------------------------------------------------------------------------
(* C10 *)

\* a date argument that is given, not blank, and no calendar date
Unparseable(s) == s # None /\ strip(s) # "" /\ s \notin DOMAIN Calendar

\* the unparseable values of a call
Offending(a) ==
    {s \in {a.start_date, a.end_date} \cup Range(a.exclude_holidays) : Unparseable(s)}

InvalidDateError(e) ==
    /\ Len(e) = 2
    /\ e[1] \in {"Invalid start_date: ", "Invalid end_date: ", "Invalid holiday date: "}

\* the call with every blank bound taken as no bound and every blank holiday
\* entry dropped
Unblanked(a) ==
    [start_date |-> IF strip(a.start_date) = "" THEN None ELSE a.start_date,
     end_date |-> IF strip(a.end_date) = "" THEN None ELSE a.end_date,
     exclude_holidays |-> SelectSeq(a.exclude_holidays, LAMBDA h : strip(h) # "")]

\* an unparseable value fails the call with an error naming it, before any
\* work (a start later than the end is refused first, by the range check)
C10_UnparseableFails ==
    (pc = "done" /\ out.variant = "api" /\ Offending(args) # {})
    => /\ out.status = "error"
       /\ NoWorkDone
       /\ \/ InvalidDateError(out.error) /\ out.error[2] \in Offending(args)
          \/ StartAfterEnd(args) /\ out.error = RangeError

\* a blank bound is no bound and a blank holiday entry is skipped: the call
\* ends as the call without them does
C10_BlankIsNoBound ==
    (pc = "done" /\ out.variant = "api" /\ Offending(args) = {})
    => LET b == Unblanked(args)
           plain == analyze(df, b.start_date, b.end_date, b.exclude_holidays,
                            "req_1", "raise", "ok")
       IN  /\ out.status = plain.status
           /\ OutLists = <<plain.flagged_excess_hours, plain.flagged_low_rest_hours,
                           plain.flagged_weekly_excess, plain.flagged_excess_days>>

\* C10: invalid date strings. An unparseable start, end or holiday string
\* fails analyze with an invalid-date error holding the offending value,
\* with no rule evaluated and no report written; a missing or blank start or
\* end is no bound, and blank holiday entries are skipped without error.
C10_InvalidDateStrings == C10_UnparseableFails /\ C10_BlankIsNoBound

----------------------------------------------------------------------------
(* C11 *)

\* the rows with a timestamp that fails to parse, and the dataset without them
BadRows(d) == {i \in DOMAIN d : d[i].InPunchTime = BadCell \/ d[i].OutPunchTime = BadCell}
GoodRows(d) ==
    SelectSeq(d, LAMBDA row : row.InPunchTime # BadCell /\ row.OutPunchTime # BadCell)

\* the warnings of a result that do not speak of the report
RowWarnings(w) == {i \in DOMAIN w : w[i] # "Report generation failed: "}

\* C11: bad rows are skipped, not fatal. When the dataset holds a row whose
\* in-time or out-time fails to parse next to valid rows, analyze succeeds,
\* its four lists are those of the remaining rows, and the result carries
\* exactly one warning about the dropped rows.
C11_BadRowsSkipped ==
    (/\ pc = "done" /\ out.variant = "api"
     /\ PlainArgs(args) /\ ~StartAfterEnd(args)
     /\ BadRows(df) # {} /\ GoodRows(df) # <<>>)
    => /\ out.status = "ok"
       /\ OutLists = ListsOf("api", GoodRows(df), args)
       /\ Cardinality(RowWarnings(out.warnings)) = 1

----------------------------------------------------------------------------
(* C12 *)

\* the Monday of the week that holds date dt
MondayOf(dt) == WeekOf(dt) * DaysPerWeek

\* C12: week boundaries are calendar-absolute. Every weekly-excess and every
\* excess-days entry reports as week start the Monday of the week of its work
\* dates and as week end that Monday + 6 days, whichever days of the week
\* have data and whatever range was requested.
C12_CalendarWeeks ==
    Returned_ok
    => /\ \A x \in Range(out.flagged_weekly_excess) :
             /\ x.Week_Start = MondayOf(x.Week_Start)
             /\ x.Week_End = x.Week_Start + (DaysPerWeek - 1)
       /\ \A x \in Range(out.flagged_excess_days) :
             /\ x.First_Day = MondayOf(x.First_Day)
             /\ x.Last_Day = x.First_Day + (DaysPerWeek - 1)

----------------------------------------------------------------------------
(* C13 *)

\* the dataset with one name for every row: what is left of a row's
\* identity is its employee code
OneName(d) ==
    [i \in DOMAIN d |-> [d[i] EXCEPT !.Firstname = "Ann", !.Lastname = "Lee"]]

\* what the four lists say of each employee code, names left out
ByCode(lists) ==
    << {<<x.EECode, x.Date, x.Total_Hours>> : x \in Range(lists[1])},
       {<<x.EECode, x.Date, x.Rest_Hours>> : x \in Range(lists[2])},
       {<<x.EECode, x.Week_Start, x.Week_End, x.Total_Weekly_Hours>> :
            x \in Range(lists[3])},
       {<<x.EECode, x.First_Day, x.Last_Day, x.Days_Worked>> :
            x \in Range(lists[4])} >>

\* C13: the employee code is the sole identity key. The rows of one code are
\* aggregated together whatever first and last names they carry: the lists
\* say of each code what they say when all its rows carry one name.
C13_CodeIsIdentity ==
    (Returned_ok /\ PlainArgs(args))
    => ByCode(OutLists) = ByCode(ListsOf(out.variant, OneName(df), args))

----------------------------------------------------------------------------
(* C14 *)

\* the aliases of a canonical field, as a set, and all aliases
AliasesOf(f) == Range(column_mappings[f])

\* h is the first alias of f, in alias-list order, among the headers
FirstPresent(h, f, headers) ==
    \E k \in DOMAIN column_mappings[f] :
        /\ column_mappings[f][k] = h
        /\ h \in Range(headers)
        /\ \A j \in 1..(k - 1) : column_mappings[f][j] \notin Range(headers)

\* what the label at position i must be after normalization of headers
Expected(headers, i) ==
    IF \E f \in DOMAIN column_mappings :
          f \notin Range(headers) /\ FirstPresent(headers[i], f, headers)
    THEN CHOOSE f \in DOMAIN column_mappings :
          f \notin Range(headers) /\ FirstPresent(headers[i], f, headers)
    ELSE headers[i]

\* the canonical fields that no label of cols names
StillMissing(cols) == {f \in Range(REQUIRED_COLUMNS) : f \notin Range(cols)}

\* C14: column normalization. For each canonical field whose header is
\* absent, the first alias (in alias-list order) present is renamed to it; a
\* canonical header that is present is never overwritten and no other label
\* changes. Afterwards all five canonical headers are present, or the
\* normalization fails with a schema error naming exactly the canonical
\* fields still missing and listing the headers present. No cell changes.
C14_ColumnNormalization ==
    [][pc = "headers" =>
        LET headers == [i \in DOMAIN columns |-> clean_header(columns[i])]
        IN  /\ DOMAIN columns' = DOMAIN columns
            /\ \A i \in DOMAIN columns : columns'[i] = Expected(headers, i)
            /\ cells' = cells
            /\ IF StillMissing(columns') = {}
               THEN pc' = "loading" /\ ~schema'.raised
                    /\ Range(REQUIRED_COLUMNS) \subseteq Range(columns')
               ELSE /\ pc' = "schema_error" /\ schema'.raised
                    /\ Range(schema'.missing) = StillMissing(columns')
                    /\ Len(schema'.missing) = Cardinality(StillMissing(columns'))
                    /\ schema'.available = columns']_vars

\* a frame with two aliases of the in-time and no canonical header for it has
\* been normalized: the first alias of the list was renamed, the other kept
C14_Witness ==
    /\ pc = "loading"
    /\ "In time" \notin Range(columns) /\ "In Time" \in Range(columns)
    /\ "InPunchTime" \in Range(columns)
    /\ "EmployeeCode" \in Range(columns) /\ "Company Code" \notin Range(columns)

----------------------------------------------------------------------------
(* C15 *)

\* a list of (employee code, date or week key) pairs is in ascending order
Ascending(keys) ==
    \A i, j \in DOMAIN keys : i < j => ~TupleLess(keys[j], keys[i])

\* C15: output ordering. Each of the four flagged lists is sorted ascending
\* by employee code and then by the rule's own key: the date for the daily
\* and the rest rule, the week start for the two weekly rules.
C15_OutputOrdering ==
    Returned_ok
    => /\ Ascending([i \in DOMAIN out.flagged_excess_hours |->
             <<Rank(out.flagged_excess_hours[i].EECode),
               out.flagged_excess_hours[i].Date>>])
       /\ Ascending([i \in DOMAIN out.flagged_low_rest_hours |->
             <<Rank(out.flagged_low_rest_hours[i].EECode),
               out.flagged_low_rest_hours[i].Date>>])
       /\ Ascending([i \in DOMAIN out.flagged_weekly_excess |->
             <<Rank(out.flagged_weekly_excess[i].EECode),
               out.flagged_weekly_excess[i].Week_Start>>])
       /\ Ascending([i \in DOMAIN out.flagged_excess_days |->
             <<Rank(out.flagged_excess_days[i].EECode),
               out.flagged_excess_days[i].First_Day>>])

----------------------------------------------------------------------------
(* C16 *)

----------------------------------------------------------------------------
(* C17 *)

ReportWarning == "Report generation failed: "

\* C17: report failure is non-fatal. When the analysis itself succeeds,
\* analyze returns the four lists and the summary whatever happens to the
\* report; a failure to create the directory or to write the workbook adds
\* one warning that describes it, and leaves no report file.
C17_ReportFailureNonFatal ==
    (pc = "done" /\ out.variant = "api")
    => LET r == analysis(df, args.start_date, args.end_date,
                         args.exclude_holidays, blanks)
       IN  r.status = "ok"
           => /\ out.status = "ok"
              /\ OutLists = <<r.flagged_excess_hours, r.flagged_low_rest_hours,
                              r.flagged_weekly_excess, r.flagged_excess_days>>
              /\ out.summary = r.summary
              /\ IF reports = {}
                 THEN out.warnings = <<ReportWarning>>
                 ELSE out.warnings = <<>>

\* the report of an analysis with flagged entries could not be written
C17_Witness ==
    /\ pc = "done" /\ out.variant = "api" /\ out.status = "ok"
    /\ out.warnings = <<ReportWarning>> /\ reports = {}
    /\ out.flagged_excess_hours # <<>>
    /\ out.summary.flags.excess_daily_hours = Len(out.flagged_excess_hours)

----------------------------------------------------------------------------
(* C18 *)

\* C18: summary counts. The summary of a successful analysis holds the number
\* of rows received, the number of rows retained after filtering, the number
\* of distinct employee codes, and for each rule the length of its list.
C18_SummaryCounts ==
    (Returned_ok /\ out.variant = "api" /\ PlainArgs(args))
    => /\ out.summary.rows_received = Len(df)
       /\ out.summary.employees = Cardinality({df[i].EECode : i \in DOMAIN df})
       /\ out.summary.flags.excess_daily_hours = Len(out.flagged_excess_hours)
       /\ out.summary.flags.low_rest_hours = Len(out.flagged_low_rest_hours)
       /\ out.summary.flags.weekly_excess_hours = Len(out.flagged_weekly_excess)
       /\ out.summary.flags.excess_working_days = Len(out.flagged_excess_days)
       /\ "rows_retained" \in DOMAIN out.summary
       /\ out.summary.rows_retained = Len(Retained(df, args))

\* what the summary does hold is right: the rows received, the employee
\* codes and the four counts
C18_CountsPresent ==
    (Returned_ok /\ out.variant = "api")
    => /\ out.summary.rows_received = Len(df)
       /\ out.summary.employees = Cardinality({df[i].EECode : i \in DOMAIN df})
       /\ out.summary.flags.excess_daily_hours = Len(out.flagged_excess_hours)
       /\ out.summary.flags.low_rest_hours = Len(out.flagged_low_rest_hours)
       /\ out.summary.flags.weekly_excess_hours = Len(out.flagged_weekly_excess)
       /\ out.summary.flags.excess_working_days = Len(out.flagged_excess_days)

\* the answer a request gets when no other request is around: its handler
\* run on its own upload and form fields, in a file system that holds its
\* own temporary file and nothing else
alone(rq, q) ==
    IF rejects(rq.variant, rq.upload).kind # "return"
    THEN rejected(rq.variant, rejects(rq.variant, rq.upload))
    ELSE response_to(rq.variant,
                     outcome_of(rq.variant, rq.upload, rq.call, q, rq.ws, rq.io,
                                {temp_name(q)}),
                     q)

\* the temporary files and the report files that changed in a step
TouchedTemp == (temp_files \ temp_files') \cup (temp_files' \ temp_files)
TouchedReports == (reports \ reports') \cup (reports' \ reports)

\* C19: requests interleaved in any order are isolated. Every request that
\* has been answered got the answer (status, flagged lists, summary,
\* warnings) it gets when it runs alone, and a step of one request creates,
\* writes or deletes no temporary file and no report file of another.
\* (An answer, once given, does not change: it is compared in the step
\* that gives it.)
C19_RequestIsolation ==
    [][ /\ \A q \in Requests :
             requests'[q] # requests[q] /\ requests'[q].st = "responded"
                => requests'[q].response = alone(requests'[q], q)
        /\ \A q \in Requests, p \in Requests :
             p # q /\ requests'[q] # requests[q]
                => /\ temp_name(p) \notin TouchedTemp
                   /\ report_file(_safe_request_id(p)) \notin TouchedReports ]_vars

\* request 1, a direct call that wrote its report, was answered while
\* request 2 was suspended in the legacy route; both got their own flags
C19_Witness ==
    /\ \A q \in Requests : requests[q].st = "responded"
    /\ requests[1].among = {2}
    /\ requests[1].variant = "service" /\ requests[2].variant = "legacy"
    /\ requests[1].upload # requests[2].upload
    /\ requests[1].response.body.status = "ok"
    /\ requests[1].response.body.report_path = report_file("req_1")
    /\ report_file("req_1") \in reports
    /\ requests[2].response.status_code = 200
    /\ requests[1].response.body.flagged_excess_hours # <<>>
    /\ requests[1].response.body.flagged_low_rest_hours = <<>>
    /\ requests[2].response.body.flagged_low_rest_hours # <<>>
    /\ temp_files = {}

\* the requests a route took into its try block and answered
Handled(q) ==
    /\ requests[q].st = "responded"
    /\ requests[q].variant \in {"api", "legacy"}
    /\ rejects(requests[q].variant, requests[q].upload).kind = "return"

\* the failures a client can correct: a required column is missing under
\* every name it may have, a date does not parse, the range is reversed, or
\* no row of the upload is left to analyse
MissingColumn(rq) == missing_columns(rename(rq.upload.columns)) # <<>>
InvalidDate(rq) == Offending(call_args(rq.call)) # {}
InvalidRange(rq) == StartAfterEnd(call_args(rq.call))
NoValidData(rq) ==
    /\ ~MissingColumn(rq) /\ ~InvalidDate(rq) /\ ~InvalidRange(rq)
    /\ RetainedShifts(rq.upload.rows, call_args(rq.call)) = {}

UserCorrectable(rq) ==
    /\ rq.upload.content = "table"
    /\ MissingColumn(rq) \/ InvalidDate(rq) \/ InvalidRange(rq) \/ NoValidData(rq)

\* the text of the exception is part of the detail of the answer
Carries(detail, message) ==
    \E i \in 0..(Len(detail) - Len(message)) :
        SubSeq(detail, i + 1, i + Len(message)) = message

\* what the except clauses do with what leaves the try block
ExceptClauses(rq) ==
    /\ rq.outcome.kind = "ValueError"
          => rq.response.status_code = 400 /\ Carries(rq.response.detail, rq.outcome.message)
    /\ rq.outcome.kind = "Exception" => rq.response.status_code = 500
    /\ rq.outcome.kind = "HTTPException"
          => rq.response.status_code = rq.outcome.status_code

\* C20: user-correctable errors reach the caller as client errors. A request
\* whose upload lacks a required column, whose dates do not parse, whose
\* range is reversed or whose upload leaves no row to analyse is answered
\* 400; a ValueError is answered 400 with its message, any other exception
\* 500, and an HTTPException raised in the handler keeps its status.
C20_ClientErrors ==
    \A q \in Requests :
        Handled(q) => /\ UserCorrectable(requests[q]) => requests[q].response.status_code = 400
                      /\ ExceptClauses(requests[q])

\* the part of C20 that is about the except clauses alone
C20_ExceptClauses == \A q \in Requests : Handled(q) => ExceptClauses(requests[q])

\* the three kinds of exception have each left a try block
C20_ExceptionsSeen ==
    /\ requests[1].variant = "legacy" /\ requests[1].outcome.kind = "ValueError"
    /\ requests[1].response.status_code = 400
    /\ requests[2].variant = "api" /\ requests[2].outcome.kind = "HTTPException"
    /\ requests[2].response.status_code = 400
    /\ Handled(1) /\ Handled(2)

\* an upload and form fields with nothing to correct: the file has bytes and
\* a supported extension, every required column is there under one of its
\* names, the dates parse and the range is in order
ValidInput(rq) ==
    /\ rq.upload.content = "table"
    /\ rq.upload.extension \in api_extensions
    /\ ~MissingColumn(rq) /\ ~InvalidDate(rq) /\ ~InvalidRange(rq)

\* what analyze returns for the upload and the form fields of a request
analyze_of(rq, q) ==
    analyze(rq.upload.rows, rq.call.start_date, rq.call.end_date,
            holidays_list(rq.call.exclude_holidays), _safe_request_id(q), rq.ws, rq.io)

\* C21: the successful path of the api endpoint. A request to the api route
\* with a valid upload and valid dates is answered 200 (never 500), and the
\* four flagged lists, the summary and the warnings of the answer are those
\* that analyze returns for that upload and those dates.
C21_SuccessPath ==
    \A q \in Requests :
        (Handled(q) /\ requests[q].variant = "api" /\ ValidInput(requests[q]))
            => /\ requests[q].response.status_code = 200
               /\ requests[q].response.body = analyze_of(requests[q], q)

\* on valid input the api route answers 500
C21_AlwaysFails ==
    \A q \in Requests :
        (Handled(q) /\ requests[q].variant = "api" /\ ValidInput(requests[q]))
            => requests[q].response.status_code = 500

\* C22: temporary upload cleanup. Once a route has answered a request for
\* which it created a temporary file (whatever the answer: 200, the 400 of
\* an empty upload, the 400 of a ValueError, 500), that file does not exist.
C22_TempCleanup ==
    \A q \in Requests : Handled(q) => temp_name(q) \notin temp_files

\* the exit paths on which the file is removed: all but the empty upload
C22_CleanupUnlessEmpty ==
    \A q \in Requests :
        (Handled(q) /\ requests[q].upload.content # "empty")
            => temp_name(q) \notin temp_files

\* a ValueError, another exception and a return have each been cleaned up after
C22_PathsSeen ==
    /\ Handled(1) /\ Handled(2)
    /\ requests[1].variant = "legacy" /\ requests[1].outcome.kind = "ValueError"
    /\ requests[2].outcome.kind \in {"Exception", "return"}
    /\ temp_files = {}

\* the instant a shift ends by the duration the rules compute for it
ShiftEnd(row) == row.InPunchTime + Duration(row.InPunchTime, row.OutPunchTime)

\* the shifts of d behind the daily aggregate g of flag_low_rest_hours
ShiftsBehind(d, g) ==
    {i \in DOMAIN d : /\ IsShift(d[i])
                      /\ d[i].EECode = g.EECode
                      /\ d[i].Firstname = g.Firstname /\ d[i].Lastname = g.Lastname
                      /\ WorkDate(d[i]) = g.Date}

\* C23: duration and last-out agree. Once the low-rest rule has run, the
\* last-out of every daily aggregate that has a shift is the latest
\* in-instant + computed duration of its shifts (a shift recorded as ending
\* before it starts ends 24 hours later), and is not before its first-in.
C23_LastOutAgrees ==
    (pc \in {"done", "again"} /\ out.variant = "api" /\ out.status = "ok")
        => \A j \in DOMAIN daily_punches(df) :
              LET g == daily_punches(df)[j]
              IN  ShiftsBehind(df, g) # {}
                     => /\ g.OutPunchTime_dt = Max({ShiftEnd(df[i]) : i \in ShiftsBehind(df, g)})
                        /\ g.OutPunchTime_dt >= g.InPunchTime_dt

\* the person of a row of daily hours, and the person with the week
Person(h) == <<h.EECode, h.Firstname, h.Lastname>>
PersonWeek(h) == <<h.EECode, h.Firstname, h.Lastname, WeekOf(h.Date)>>

\* the rows the excess-days rule counts in the last call, and the rows the
\* weekly rule sums
DaysRows ==
    Range(working_days_rows(df, args.start_date, args.end_date,
                            args.exclude_holidays, blanks))
WeeklyRows ==
    Range(range_filter(PunchHours(df), args.start_date, args.end_date, blanks))

\* the groups in which the excess-days rule counts dates: the api variant
\* groups by person and week, the legacy variant by person
DayGroups(variant) ==
    IF variant = "api"
    THEN {[person |-> Person(h),
           dates |-> {x.Date : x \in {y \in DaysRows : PersonWeek(y) = PersonWeek(h)}}] :
             h \in DaysRows}
    ELSE {[person |-> Person(h),
           dates |-> {x.Date : x \in {y \in DaysRows : Person(y) = Person(h)}}] :
             h \in DaysRows}

\* the distinct work dates behind the weekly total of a person and week
WeeklyDates(person, w) ==
    {x.Date : x \in {y \in WeeklyRows : Person(y) = person /\ WeekOf(y.Date) = w}}

\* the person has a shift of more than zero hours on that date
PositiveShiftOn(person, dt) ==
    \E i \in DOMAIN df :
        /\ IsShift(df[i]) /\ WorkDate(df[i]) = dt
        /\ <<df[i].EECode, df[i].Firstname, df[i].Lastname>> = person
        /\ Duration(df[i].InPunchTime, df[i].OutPunchTime) > 0

\* every entry of the excess-days list reports the count of one group
EntriesAreGroups ==
    \A i \in DOMAIN out.flagged_excess_days :
        \E g \in DayGroups(out.variant) :
            /\ g.person = <<out.flagged_excess_days[i].EECode,
                            out.flagged_excess_days[i].Name[1],
                            out.flagged_excess_days[i].Name[2]>>
            /\ Cardinality(g.dates) = out.flagged_excess_days[i].Days_Worked
            /\ Min(g.dates) = out.flagged_excess_days[i].First_Day

DaysWithinWeeklyDates(variant) ==
    /\ EntriesAreGroups
    /\ \A g \in DayGroups(variant) :
          /\ \A dt \in g.dates : PositiveShiftOn(g.person, dt)
          /\ \A w \in {WeekOf(dt) : dt \in g.dates} :
                Cardinality(g.dates) <= Cardinality(WeeklyDates(g.person, w))

\* C24: zero-length shifts and days worked. After a call that ran the rules,
\* the excess-days rule has counted a work date only if the employee has a
\* shift of more than zero hours on it, and for the same employee and week
\* the days it counted are no more than the distinct work dates behind the
\* weekly total.
C24_DaysWithinWeeklyDates ==
    (pc \in {"done", "again"} /\ out.status = "ok") => DaysWithinWeeklyDates(out.variant)

\* the same for the api variant alone
C24_ApiDaysWithinWeek ==
    (pc \in {"done", "again"} /\ out.status = "ok" /\ out.variant = "api")
        => DaysWithinWeeklyDates("api")

\* an api call on a week with a zero-hour shift: the weekly rule has a date
\* the excess-days rule does not count
C24_ZeroShiftSeen ==
    /\ pc = "done" /\ out.status = "ok" /\ out.variant = "api"
    /\ \E i \in DOMAIN df : IsShift(df[i]) /\ df[i].InPunchTime = df[i].OutPunchTime
    /\ \E g \in DayGroups("api") :
          \E w \in {WeekOf(dt) : dt \in g.dates} :
             Cardinality(g.dates) < Cardinality(WeeklyDates(g.person, w))

====
